---------------------------- MODULE Spec2Model ----------------------------
(***************************************************************************)
(* A model of sqlserver-doctor-mcp: the connection descriptor              *)
(* (utils/connection.py) and the four diagnostic tools (server.py).        *)
(*                                                                         *)
(* Conventions.                                                            *)
(*   - A Python str is a TLA+ string; "" is the empty str.                 *)
(*   - A Python "X | None" is a sequence of length at most one:            *)
(*     None is << >> and the value v is << v >>.                           *)
(*   - A str built by an f-string or by str.join is the sequence of its    *)
(*     pieces (literals and rendered values) in order, so that "contains"  *)
(*     is a contiguous-subsequence test; the empty str built that way is   *)
(*     << >>.                                                              *)
(*   - A value delivered by the database driver is a record                *)
(*     [t, i, s]: an int (t = "int", i), a NUMERIC with one decimal        *)
(*     (t = "dec", i in tenths), a str (t = "str", s) or NULL (t = "null").*)
(*   - A Python float that is a quotient of two ints is the record         *)
(*     [num, den] of that quotient; 0.0 is [num |-> 0, den |-> 1].         *)
(***************************************************************************)
EXTENDS Integers, Sequences, FiniteSets, TLC

VARIABLES
    env,             \* os.environ: variable name -> None or Some(value)
    _connection,     \* the module global: None or Some([id, cfg])
    constructed,     \* how many SQLServerConnection objects were constructed
    connected_with,  \* the string last handed to pyodbc.connect: None or Some(str)
    last,            \* the last completed call: its input and what it returned
    invocations      \* thread -> the tool invocation it is running, step by step

vars == <<env, _connection, constructed, connected_with, last, invocations>>

(***************************************************************************)
(* Bounds of the model.                                                    *)
(***************************************************************************)
\* the longest result set the driver delivers
MaxRows == 2
\* the number of threads the host runs tool invocations on
MaxThreads == 2

(***************************************************************************)
(* Generic helpers.                                                        *)
(***************************************************************************)
None == << >>
Some(v) == << v >>

Min(a, b) == IF a <= b THEN a ELSE b

SetMax(S) == CHOOSE m \in S : \A k \in S : k <= m

\* all sequences over S of length at most n
BoundedSeq(S, n) == UNION {[1..k -> S] : k \in 0..n}

\* sub is a contiguous run of s
Contains(s, sub) ==
    \E k \in 0..(Len(s) - Len(sub)) :
        \A j \in 1..Len(sub) : s[k + j] = sub[j]

\* sep.join(parts), each part a sequence of pieces
RECURSIVE join(_, _)
join(sep, parts) ==
    IF parts = << >> THEN << >>
    ELSE IF Len(parts) = 1 THEN parts[1]
    ELSE parts[1] \o <<sep>> \o join(sep, Tail(parts))

(***************************************************************************)
(* The environment: os.getenv(name, default).                              *)
(***************************************************************************)
EnvVars == {"SQL_SERVER_HOST", "SQL_SERVER_PORT", "SQL_SERVER_DATABASE",
            "SQL_SERVER_USER", "SQL_SERVER_PASSWORD", "SQL_SERVER_DRIVER",
            "SQL_SERVER_TRUST_CERT", "SQL_SERVER_ENCRYPT"}

\* the value a variable holds when the environment sets it
EnvValue(name) ==
    CASE name = "SQL_SERVER_HOST" -> "test-server"
      [] name = "SQL_SERVER_PORT" -> "1434"
      [] name = "SQL_SERVER_DATABASE" -> "testdb"
      [] name = "SQL_SERVER_USER" -> "testuser"
      [] name = "SQL_SERVER_PASSWORD" -> "testpass"
      [] name = "SQL_SERVER_DRIVER" -> "FreeTDS"
      [] name = "SQL_SERVER_TRUST_CERT" -> "no"
      [] name = "SQL_SERVER_ENCRYPT" -> "yes"

CredentialVars == {"SQL_SERVER_USER", "SQL_SERVER_PASSWORD"}

\* every environment: each variable is unset or set, and a credential variable
\* may also be set to the empty string
Environments ==
    {[n \in EnvVars |-> IF n \notin S THEN None
                        ELSE IF n \in E THEN Some("")
                        ELSE Some(EnvValue(n))] :
        S \in SUBSET EnvVars, E \in SUBSET CredentialVars}

\* the environment in which no variable is set
EmptyEnvironment == [n \in EnvVars |-> None]

\* the environments that set nothing but credentials, to non-empty values
CredentialEnvironments ==
    {[n \in EnvVars |-> IF n \in S THEN Some(EnvValue(n)) ELSE None] :
        S \in SUBSET CredentialVars}

getenv(e, name, default) == IF e[name] = None THEN default ELSE e[name][1]

(***************************************************************************)
(* SQLServerConnection.__init__ : the descriptor read from the environment.*)
(***************************************************************************)
DefaultDriver == "ODBC Driver 17 for SQL Server"

SQLServerConnection(e) ==
    [host       |-> getenv(e, "SQL_SERVER_HOST", "localhost"),
     port       |-> getenv(e, "SQL_SERVER_PORT", "1433"),
     database   |-> getenv(e, "SQL_SERVER_DATABASE", "master"),
     user       |-> getenv(e, "SQL_SERVER_USER", ""),
     password   |-> getenv(e, "SQL_SERVER_PASSWORD", ""),
     driver     |-> getenv(e, "SQL_SERVER_DRIVER", DefaultDriver),
     trust_cert |-> getenv(e, "SQL_SERVER_TRUST_CERT", "yes"),
     encrypt    |-> getenv(e, "SQL_SERVER_ENCRYPT", "no")]

(***************************************************************************)
(* SQLServerConnection.get_connection_string                               *)
(***************************************************************************)
\* a variant that looks at the user alone, as the auth_type of __init__ does
sql_auth_user_only(c) == c.user # ""

\* "if self.user and self.password": both strings are non-empty
sql_auth(c) == c.user # "" /\ c.password # ""

conn_str_parts(c) ==
    << <<"DRIVER={", c.driver, "}">>,
       <<"SERVER=", c.host, ",", c.port>>,
       <<"DATABASE=", c.database>>,
       <<"TrustServerCertificate=", c.trust_cert>>,
       <<"Encrypt=", c.encrypt>> >>
    \o (IF sql_auth(c)
          THEN << <<"UID=", c.user>>, <<"PWD=", c.password>> >>
          ELSE << <<"Trusted_Connection=yes">> >>)

get_connection_string(c) == join(";", conn_str_parts(c))

(***************************************************************************)
(* Values the driver delivers, and the result sets of the model.           *)
(***************************************************************************)
IntV(n) == [t |-> "int", i |-> n, s |-> ""]
DecV(tenths) == [t |-> "dec", i |-> tenths, s |-> ""]
StrV(x) == [t |-> "str", i |-> 0, s |-> x]
NullV == [t |-> "null", i |-> 0, s |-> ""]

\* the column names of each fixed query, in SELECT order
VersionColumns == <<"Version", "ServerName">>
DatabaseColumns == <<"name", "database_id", "create_date", "state_desc",
                     "recovery_model_desc", "compatibility_level">>
SessionColumns == <<"sql_text", "session_id", "status", "command", "cpu_seconds",
                    "elapsed_seconds", "reads", "logical_reads", "wait_time",
                    "last_wait_type", "blocking_session_id", "connect_time", "dop",
                    "host_name", "program_name", "database_name", "login_name">>
SchedulerColumns == <<"scheduler_id", "current_tasks_count", "runnable_tasks_count",
                      "work_queue_count", "pending_disk_io_count">>

Columns(q) ==
    CASE q = "version" -> VersionColumns
      [] q = "databases" -> DatabaseColumns
      [] q = "sessions" -> SessionColumns
      [] q = "schedulers" -> SchedulerColumns

\* rows the model's server delivers for each query
VersionRowA == <<StrV("Microsoft SQL Server 2019 (RTM) - 15.0.2000.5"), StrV("TESTSERVER")>>
VersionRowB == <<StrV("Microsoft SQL Server 2022 (RTM) - 16.0.1000.6"), StrV("OTHERSERVER")>>
VersionRowNull == <<StrV("Microsoft SQL Server 2019 (RTM) - 15.0.2000.5"), NullV>>

DatabaseRowA == <<StrV("master"), IntV(1), StrV("2003-04-08 09:13:36"), StrV("ONLINE"),
                  StrV("SIMPLE"), IntV(150)>>
DatabaseRowBad == <<NullV, IntV(5), StrV("2024-01-15 10:30:00"), StrV("ONLINE"),
                    StrV("FULL"), IntV(150)>>

SessionRowFull == <<StrV("SELECT * FROM Users"), IntV(52), StrV("running"), StrV("SELECT"),
                    DecV(15), DecV(23), IntV(100), IntV(500), IntV(0),
                    StrV("CXPACKET"), IntV(0), StrV("2024-01-15 10:30:00"), IntV(1),
                    StrV("WORKSTATION1"), StrV("SSMS"), StrV("TestDB"), StrV("sa")>>
SessionRowSparse == <<StrV("UPDATE Orders SET x = 1"), IntV(53), StrV("suspended"),
                      StrV("UPDATE"), IntV(0), DecV(5), IntV(0), IntV(7), IntV(120),
                      NullV, NullV, NullV, IntV(1), NullV, NullV, NullV, NullV>>
SessionRowBad == <<StrV("SELECT 1"), StrV("fifty-four"), StrV("running"), StrV("SELECT"),
                   DecV(1), DecV(2), IntV(0), IntV(0), IntV(0),
                   NullV, NullV, NullV, IntV(1), NullV, NullV, NullV, NullV>>

SchedulerRow(id, runnable) == <<IntV(id), IntV(5), IntV(runnable), IntV(0), IntV(0)>>
SchedulerRowBad == <<IntV(3), IntV(5), NullV, IntV(0), IntV(0)>>

\* rows of a result set of any length up to MaxRows
SampleRows(q) ==
    CASE q = "version" -> {VersionRowA, VersionRowB}
      [] q = "databases" -> {DatabaseRowA, DatabaseRowBad}
      [] q = "sessions" -> {SessionRowSparse, SessionRowBad}
      [] q = "schedulers" -> {SchedulerRow(0, -1), SchedulerRow(1, 0),
                              SchedulerRow(2, 1), SchedulerRowBad}

\* further rows, delivered as a result set of one row
SingleRows(q) ==
    CASE q = "version" -> {VersionRowNull}
      [] q = "sessions" -> {SessionRowFull}
      [] OTHER -> {}

\* a result set whose description lacks a column of the query
ShortColumns(q) ==
    CASE q = "version" -> {<<"Version">>, <<"ServerName">>}
      [] OTHER -> {SubSeq(Columns(q), 1, Len(Columns(q)) - 1)}

GoodRow(q) ==
    CASE q = "version" -> VersionRowA
      [] q = "databases" -> DatabaseRowA
      [] q = "sessions" -> SessionRowSparse
      [] q = "schedulers" -> SchedulerRow(1, 0)

(***************************************************************************)
(* What pyodbc does with one query: it raises at connect, at execute or at *)
(* fetchall, or it delivers a description and the rows.                    *)
(***************************************************************************)
DriverFault(stage, msg) == [kind |-> "fault", stage |-> stage, msg |-> msg,
                            columns |-> << >>, rows |-> << >>]
DriverRows(columns, rows) == [kind |-> "rows", stage |-> "", msg |-> "",
                              columns |-> columns, rows |-> rows]

DriverFaults ==
    {DriverFault("connect", ""), DriverFault("connect", "Connection timeout"),
     DriverFault("execute", "Permission denied"),
     DriverFault("fetchall", "Connection reset")}

DriverOutcomes(q) ==
    DriverFaults
    \cup {DriverRows(Columns(q), r) : r \in BoundedSeq(SampleRows(q), MaxRows)}
    \cup {DriverRows(Columns(q), <<r>>) : r \in SingleRows(q)}
    \cup {DriverRows(c, <<GoodRow(q)>>) : c \in ShortColumns(q)}

(***************************************************************************)
(* SQLServerConnection.execute_query                                       *)
(***************************************************************************)
\* dict(zip(columns, row)): zip stops at the shorter of the two, and a column
\* name that occurs twice keeps the value of its last occurrence
zip_dict(columns, row) ==
    LET n == Min(Len(columns), Len(row))
    IN  [c \in {columns[j] : j \in 1..n} |->
            row[SetMax({j \in 1..n : columns[j] = c})]]

\* The class of the fault the driver raises.  Both except clauses of
\* execute_query end in a bare raise, which re-raises the object it caught.
fault_class(d) == IF d.kind = "fault" THEN "pyodbc.Error" ELSE ""

\* a variant that maps the first fetched row only
execute_query_first_row(c, d) ==
    LET conn_str == get_connection_string(c)
    IN  IF d.kind = "fault"
          THEN [raised |-> Some(d.msg), class |-> fault_class(d), rows |-> << >>,
                conn_str |-> conn_str]
          ELSE [raised |-> None, class |-> "",
                rows |-> [k \in 1..Min(1, Len(d.rows)) |-> zip_dict(d.columns, d.rows[k])],
                conn_str |-> conn_str]

\* a variant that answers a fault with the empty list
execute_query_no_raise(c, d) ==
    LET conn_str == get_connection_string(c)
    IN  [raised |-> None, class |-> "",
         rows |-> [k \in 1..Len(d.rows) |-> zip_dict(d.columns, d.rows[k])],
         conn_str |-> conn_str]

\* The outcome of one call: raised is None or Some(message of the fault that
\* is re-raised), class the class of that fault, rows the list of dicts
\* returned, conn_str the string handed to pyodbc.connect.
execute_query(c, d) ==
    LET conn_str == get_connection_string(c)
    IN  IF d.kind = "fault"
          THEN [raised |-> Some(d.msg), class |-> fault_class(d), rows |-> << >>,
                conn_str |-> conn_str]
          ELSE [raised |-> None, class |-> "",
                rows |-> [k \in 1..Len(d.rows) |-> zip_dict(d.columns, d.rows[k])],
                conn_str |-> conn_str]

(***************************************************************************)
(* The pydantic record models of server.py.  A field is [name, type, opt]. *)
(***************************************************************************)
Field(name, type, opt) == [name |-> name, type |-> type, opt |-> opt]

DatabaseInfo ==
    <<Field("name", "str", FALSE), Field("database_id", "int", FALSE),
      Field("create_date", "str", FALSE), Field("state_desc", "str", FALSE),
      Field("recovery_model_desc", "str", FALSE),
      Field("compatibility_level", "int", FALSE)>>

ActiveSessionInfo ==
    <<Field("sql_text", "str", FALSE), Field("session_id", "int", FALSE),
      Field("status", "str", FALSE), Field("command", "str", FALSE),
      Field("cpu_seconds", "float", FALSE), Field("elapsed_seconds", "float", FALSE),
      Field("reads", "int", FALSE), Field("logical_reads", "int", FALSE),
      Field("wait_time", "int", FALSE), Field("last_wait_type", "str", TRUE),
      Field("blocking_session_id", "int", TRUE), Field("connect_time", "str", TRUE),
      Field("dop", "int", FALSE), Field("host_name", "str", TRUE),
      Field("program_name", "str", TRUE), Field("database_name", "str", TRUE),
      Field("login_name", "str", TRUE)>>

SchedulerStats ==
    <<Field("scheduler_id", "int", FALSE), Field("current_tasks_count", "int", FALSE),
      Field("runnable_tasks_count", "int", FALSE), Field("work_queue_count", "int", FALSE),
      Field("pending_disk_io_count", "int", FALSE)>>

\* whether pydantic accepts the value v for a field of the given type.  The
\* strings of the model are not numerals, so none converts to a number.
accepts(type, v) ==
    CASE type = "str" -> v.t = "str"
      [] type = "int" -> v.t = "int" \/ (v.t = "dec" /\ v.i % 10 = 0)
      [] type = "float" -> v.t \in {"int", "dec"}

\* the validated value of a field the model accepts
validated(type, v) ==
    CASE type = "str" -> v.s
      [] type = "int" -> IF v.t = "dec" THEN v.i \div 10 ELSE v.i
      [] type = "float" -> IF v.t = "dec" THEN [num |-> v.i, den |-> 10]
                                           ELSE [num |-> v.i, den |-> 1]

\* a field of the model that the keyword arguments kw (a dict) do not satisfy
field_fails(f, kw) ==
    IF f.name \notin DOMAIN kw THEN ~f.opt
    ELSE IF kw[f.name].t = "null" THEN ~f.opt
    ELSE ~accepts(f.type, kw[f.name])

field_value(f, kw) ==
    IF f.name \notin DOMAIN kw \/ kw[f.name].t = "null"
      THEN None
      ELSE IF f.opt THEN Some(validated(f.type, kw[f.name]))
                    ELSE validated(f.type, kw[f.name])

\* str(ValidationError): it names the model and every field that failed
RECURSIVE failed_fields(_, _)
failed_fields(fields, kw) ==
    IF fields = << >> THEN ""
    ELSE (IF field_fails(Head(fields), kw) THEN " " \o Head(fields).name ELSE "")
         \o failed_fields(Tail(fields), kw)

validation_error(model_name, fields, kw) ==
    "validation error for " \o model_name \o ":" \o failed_fields(fields, kw)

\* Model(**kw): raised is None and value the record, or raised is the message
construct(model_name, fields, kw) ==
    IF \E k \in 1..Len(fields) : field_fails(fields[k], kw)
      THEN [raised |-> Some(validation_error(model_name, fields, kw)), value |-> << >>]
      ELSE [raised |-> None,
            value |-> [n \in {fields[k].name : k \in 1..Len(fields)} |->
                        LET f == CHOOSE g \in {fields[k] : k \in 1..Len(fields)} : g.name = n
                        IN  field_value(f, kw)]]

\* [Model(**row) for row in results]: the first row that fails raises
construct_all(model_name, fields, results) ==
    LET bad == {k \in 1..Len(results) : construct(model_name, fields, results[k]).raised # None}
    IN  IF bad # {}
          THEN [raised |-> construct(model_name, fields,
                                     results[CHOOSE k \in bad : \A j \in bad : k <= j]).raised,
                value |-> << >>]
          ELSE [raised |-> None,
                value |-> [k \in 1..Len(results) |->
                              construct(model_name, fields, results[k]).value]]

(***************************************************************************)
(* The tools of server.py.  Each is a try block and its "except Exception" *)
(* handler.  A block completes as [raised, value]: raised is None and      *)
(* value the envelope returned, or raised is Some(message) of the fault.   *)
(***************************************************************************)
Return(v) == [raised |-> None, value |-> v]
Raise(msg) == [raised |-> Some(msg), value |-> << >>]

\* str(KeyError(key))
key_error(key) == "'" \o key \o "'"

\* ---- get_server_version -------------------------------------------------
ServerVersionFailure(msg) ==
    [version |-> "", server_name |-> "", success |-> FALSE, error |-> Some(msg)]

NoResultsError == "No results returned from query"

ServerVersionResponse(version, server_name) ==
    IF version.t # "str" \/ server_name.t # "str"
      THEN Raise("validation error for ServerVersionResponse:"
                 \o (IF version.t # "str" THEN " version" ELSE "")
                 \o (IF server_name.t # "str" THEN " server_name" ELSE ""))
      ELSE Return([version |-> version.s, server_name |-> server_name.s,
                   success |-> TRUE, error |-> None])

\* a variant that reads the last row of the result instead of the first
get_server_version_try_last(c, d) ==
    LET q == execute_query(c, d)
        results == q.rows
        n == Len(results)
    IN  IF q.raised # None THEN Raise(q.raised[1])
        ELSE IF results # << >>
          THEN IF "ServerName" \notin DOMAIN results[n] THEN Raise(key_error("ServerName"))
               ELSE IF "Version" \notin DOMAIN results[n] THEN Raise(key_error("Version"))
               ELSE ServerVersionResponse(results[n]["Version"], results[n]["ServerName"])
          ELSE Return(ServerVersionFailure(NoResultsError))

get_server_version_try(c, d) ==
    LET q == execute_query(c, d)
        results == q.rows
    IN  IF q.raised # None THEN Raise(q.raised[1])
        ELSE IF results # << >>
          THEN IF "ServerName" \notin DOMAIN results[1] THEN Raise(key_error("ServerName"))
               ELSE IF "Version" \notin DOMAIN results[1] THEN Raise(key_error("Version"))
               ELSE ServerVersionResponse(results[1]["Version"], results[1]["ServerName"])
          ELSE Return(ServerVersionFailure(NoResultsError))

get_server_version(c, d) ==
    LET body == get_server_version_try(c, d)
    IN  IF body.raised # None THEN Return(ServerVersionFailure(body.raised[1]))
                              ELSE body

\* ---- list_databases -----------------------------------------------------
DatabaseListFailure(msg) ==
    [databases |-> << >>, count |-> 0, success |-> FALSE, error |-> Some(msg)]

\* a variant whose count is the index of the last record, counted from 0
list_databases_try_last_index(c, d) ==
    LET q == execute_query(c, d)
        databases == construct_all("DatabaseInfo", DatabaseInfo, q.rows)
    IN  IF q.raised # None THEN Raise(q.raised[1])
        ELSE IF databases.raised # None THEN Raise(databases.raised[1])
        ELSE Return([databases |-> databases.value, count |-> Len(databases.value) - 1,
                     success |-> TRUE, error |-> None])

list_databases_try(c, d) ==
    LET q == execute_query(c, d)
        databases == construct_all("DatabaseInfo", DatabaseInfo, q.rows)
    IN  IF q.raised # None THEN Raise(q.raised[1])
        ELSE IF databases.raised # None THEN Raise(databases.raised[1])
        ELSE Return([databases |-> databases.value, count |-> Len(databases.value),
                     success |-> TRUE, error |-> None])

\* a variant whose failed envelope keeps the rows converted before the fault
list_databases_partial(c, d) ==
    LET body == list_databases_try(c, d)
        q == execute_query(c, d)
        bad == {k \in 1..Len(q.rows) :
                  construct("DatabaseInfo", DatabaseInfo, q.rows[k]).raised # None}
        n == IF bad = {} THEN 0 ELSE (CHOOSE k \in bad : \A j \in bad : k <= j) - 1
        kept == [k \in 1..n |-> construct("DatabaseInfo", DatabaseInfo, q.rows[k]).value]
    IN  IF body.raised # None
          THEN Return([databases |-> kept, count |-> Len(kept), success |-> FALSE,
                       error |-> body.raised])
          ELSE body

list_databases(c, d) ==
    LET body == list_databases_try(c, d)
    IN  IF body.raised # None THEN Return(DatabaseListFailure(body.raised[1]))
                              ELSE body

\* ---- get_active_sessions ------------------------------------------------
ActiveSessionsFailure(msg) ==
    [sessions |-> << >>, count |-> 0, success |-> FALSE, error |-> Some(msg)]

\* a variant that applies the empty-result policy of get_server_version
get_active_sessions_try_nonempty(c, d) ==
    LET q == execute_query(c, d)
        sessions == construct_all("ActiveSessionInfo", ActiveSessionInfo, q.rows)
    IN  IF q.raised # None THEN Raise(q.raised[1])
        ELSE IF q.rows = << >> THEN Return(ActiveSessionsFailure(NoResultsError))
        ELSE IF sessions.raised # None THEN Raise(sessions.raised[1])
        ELSE Return([sessions |-> sessions.value, count |-> Len(sessions.value),
                     success |-> TRUE, error |-> None])

\* a variant that leaves out the rows that do not convert
get_active_sessions_try_skipping(c, d) ==
    LET q == execute_query(c, d)
        converts(row) == construct("ActiveSessionInfo", ActiveSessionInfo, row).raised = None
        sessions == construct_all("ActiveSessionInfo", ActiveSessionInfo,
                                  SelectSeq(q.rows, converts))
    IN  IF q.raised # None THEN Raise(q.raised[1])
        ELSE Return([sessions |-> sessions.value, count |-> Len(sessions.value),
                     success |-> TRUE, error |-> None])

get_active_sessions_try(c, d) ==
    LET q == execute_query(c, d)
        sessions == construct_all("ActiveSessionInfo", ActiveSessionInfo, q.rows)
    IN  IF q.raised # None THEN Raise(q.raised[1])
        ELSE IF sessions.raised # None THEN Raise(sessions.raised[1])
        ELSE Return([sessions |-> sessions.value, count |-> Len(sessions.value),
                     success |-> TRUE, error |-> None])

\* a variant that catches the driver's faults only
get_active_sessions_uncaught(c, d) ==
    LET body == get_active_sessions_try(c, d)
    IN  IF body.raised # None /\ d.kind = "fault"
          THEN Return(ActiveSessionsFailure(body.raised[1]))
          ELSE body

get_active_sessions(c, d) ==
    LET body == get_active_sessions_try(c, d)
    IN  IF body.raised # None THEN Return(ActiveSessionsFailure(body.raised[1]))
                              ELSE body

\* ---- get_scheduler_stats ------------------------------------------------
Zero == [num |-> 0, den |-> 1]

SchedulerStatsFailure(msg) ==
    [schedulers |-> << >>, scheduler_count |-> 0, total_runnable_tasks |-> 0,
     avg_runnable_per_scheduler |-> Zero, cpu_pressure_detected |-> FALSE,
     interpretation |-> << >>, success |-> FALSE, error |-> Some(msg)]

\* a variant that sums the tasks assigned instead of the tasks waiting
RECURSIVE total_current(_)
total_current(schedulers) ==
    IF schedulers = << >> THEN 0
    ELSE Head(schedulers).current_tasks_count + total_current(Tail(schedulers))

\* sum(s.runnable_tasks_count for s in schedulers)
RECURSIVE total_runnable(_)
total_runnable(schedulers) ==
    IF schedulers = << >> THEN 0
    ELSE Head(schedulers).runnable_tasks_count + total_runnable(Tail(schedulers))

\* total_runnable / scheduler_count if scheduler_count > 0 else 0.0
avg_runnable(total, scheduler_count) ==
    IF scheduler_count > 0 THEN [num |-> total, den |-> scheduler_count] ELSE Zero

\* a variant with a threshold above zero
cpu_pressure_above_one(total) == total > 1

cpu_pressure(total) == total > 0

\* f"{x:.1f}" of a quotient x >= 0: the nearest tenth, a tie going to the even
\* digit.  (A tie is a quotient k/4 or k/20; below 20 rows every tie is k/4,
\* which a float holds exactly.)
format_1f(x) ==
    LET q == (10 * x.num) \div x.den
        r == (10 * x.num) % x.den
        tenths == IF 2 * r < x.den THEN q
                  ELSE IF 2 * r > x.den THEN q + 1
                  ELSE IF q % 2 = 0 THEN q ELSE q + 1
    IN  ToString(tenths \div 10) \o "." \o ToString(tenths % 10)

PressureText(total, avg) ==
    <<"CPU PRESSURE DETECTED: ", ToString(total), " task(s) waiting for CPU. ",
      "Average ", format_1f(avg), " runnable tasks per scheduler. ",
      "This indicates the server is CPU-constrained. Consider optimizing queries, ",
      "adding CPU resources, or reducing concurrent workload.">>

NoPressureText ==
    <<"No CPU pressure detected. All schedulers have 0 runnable tasks, ",
      "indicating adequate CPU resources for current workload.">>

get_scheduler_stats_try(c, d) ==
    LET q == execute_query(c, d)
        schedulers == construct_all("SchedulerStats", SchedulerStats, q.rows)
    IN  IF q.raised # None THEN Raise(q.raised[1])
        ELSE IF schedulers.raised # None THEN Raise(schedulers.raised[1])
        ELSE LET total == total_runnable(schedulers.value)
                 scheduler_count == Len(schedulers.value)
                 avg == avg_runnable(total, scheduler_count)
                 pressure == cpu_pressure(total)
                 interpretation == IF pressure THEN PressureText(total, avg)
                                               ELSE NoPressureText
             IN  Return([schedulers |-> schedulers.value,
                         scheduler_count |-> scheduler_count,
                         total_runnable_tasks |-> total,
                         avg_runnable_per_scheduler |-> avg,
                         cpu_pressure_detected |-> pressure,
                         interpretation |-> interpretation,
                         success |-> TRUE, error |-> None])

get_scheduler_stats(c, d) ==
    LET body == get_scheduler_stats_try(c, d)
    IN  IF body.raised # None THEN Return(SchedulerStatsFailure(body.raised[1]))
                              ELSE body

(***************************************************************************)
(* SQLServerConnection.test_connection                                     *)
(***************************************************************************)
\* result[0] of an empty list: str(IndexError)
IndexErrorText == "list index out of range"

\* a variant that reports the last row
test_connection_last_row(c, d) ==
    LET q == execute_query(c, d)
    IN  IF q.raised # None
          THEN [success |-> FALSE, message |-> <<"Connection failed: ", q.raised[1]>>,
                server_info |-> None]
        ELSE IF q.rows = << >>
          THEN [success |-> FALSE, message |-> <<"Connection failed: ", IndexErrorText>>,
                server_info |-> None]
        ELSE [success |-> TRUE, message |-> <<"Connection successful">>,
              server_info |-> Some(q.rows[Len(q.rows)])]

test_connection(c, d) ==
    LET q == execute_query(c, d)
    IN  IF q.raised # None
          THEN [success |-> FALSE, message |-> <<"Connection failed: ", q.raised[1]>>,
                server_info |-> None]
        ELSE IF q.rows = << >>
          THEN [success |-> FALSE, message |-> <<"Connection failed: ", IndexErrorText>>,
                server_info |-> None]
        ELSE [success |-> TRUE, message |-> <<"Connection successful">>,
              server_info |-> Some(q.rows[1])]

(***************************************************************************)
(* get_connection: the lazily created module global.  An instance is       *)
(* [id, cfg]: id tells the objects apart, cfg holds the fields.            *)
(***************************************************************************)
\* a variant that constructs a new descriptor on every call
get_connection_fresh(global, n, e) ==
    [global |-> Some([id |-> n + 1, cfg |-> SQLServerConnection(e)]),
     constructed |-> n + 1]

get_connection(global, n, e) ==
    IF global = None
      THEN [global |-> Some([id |-> n + 1, cfg |-> SQLServerConnection(e)]),
            constructed |-> n + 1]
      ELSE [global |-> global, constructed |-> n]

(***************************************************************************)
(* The state machine: one action per callable.                             *)
(***************************************************************************)
NoDriver == [kind |-> "none", stage |-> "", msg |-> "", columns |-> << >>, rows |-> << >>]

Call(op, d, id, completion) ==
    [op |-> op, driver |-> d, instance |-> id,
     returned |-> IF completion.raised = None THEN Some(completion.value) ELSE None,
     escaped |-> completion.raised]

NoCall == [op |-> "none", driver |-> NoDriver, instance |-> 0,
           returned |-> None, escaped |-> None]

Threads == 1..MaxThreads

\* A thread that runs no invocation.  The fields of an invocation: pc is the
\* statement the thread is at, op the tool, instance the id of the descriptor
\* the thread constructed or received, driver what pyodbc did, held whether
\* the pyodbc connection the invocation opened is still open, connects and
\* executes count the calls of pyodbc.connect and of cursor.execute, queries
\* the calls of execute_query, result what the tool returned.
Idle == [pc |-> "idle", op |-> "none", instance |-> 0, driver |-> NoDriver,
         held |-> FALSE, connects |-> 0, executes |-> 0, queries |-> 0,
         result |-> None]

Init ==
    /\ env \in CredentialEnvironments
    /\ _connection = None
    /\ constructed = 0
    /\ connected_with = None
    /\ last = NoCall
    /\ invocations = [t \in Threads |-> Idle]

GetConnection ==
    LET g == get_connection(_connection, constructed, env)
    IN  /\ _connection' = g.global
        /\ constructed' = g.constructed
        /\ last' = Call("get_connection", NoDriver, g.global[1].id, Return(g.global[1]))
        /\ UNCHANGED <<env, connected_with, invocations>>

GetConnectionString ==
    /\ _connection # None
    /\ last' = Call("get_connection_string", NoDriver, _connection[1].id,
                    Return(get_connection_string(_connection[1].cfg)))
    /\ UNCHANGED <<env, _connection, constructed, connected_with, invocations>>

TestConnection ==
    /\ _connection # None
    /\ \E d \in DriverOutcomes("version") :
        /\ connected_with' = Some(execute_query(_connection[1].cfg, d).conn_str)
        /\ last' = Call("test_connection", d, _connection[1].id,
                        Return(test_connection(_connection[1].cfg, d)))
    /\ UNCHANGED <<env, _connection, constructed, invocations>>

\* A tool calls get_connection(), runs its query and builds its envelope.
GetServerVersion ==
    \E d \in DriverOutcomes("version") :
        LET g == get_connection(_connection, constructed, env)
            conn == g.global[1]
        IN  /\ _connection' = g.global
            /\ constructed' = g.constructed
            /\ connected_with' = Some(execute_query(conn.cfg, d).conn_str)
            /\ last' = Call("get_server_version", d, conn.id, get_server_version(conn.cfg, d))
            /\ UNCHANGED <<env, invocations>>

ListDatabases ==
    \E d \in DriverOutcomes("databases") :
        LET g == get_connection(_connection, constructed, env)
            conn == g.global[1]
        IN  /\ _connection' = g.global
            /\ constructed' = g.constructed
            /\ connected_with' = Some(execute_query(conn.cfg, d).conn_str)
            /\ last' = Call("list_databases", d, conn.id, list_databases(conn.cfg, d))
            /\ UNCHANGED <<env, invocations>>

GetActiveSessions ==
    \E d \in DriverOutcomes("sessions") :
        LET g == get_connection(_connection, constructed, env)
            conn == g.global[1]
        IN  /\ _connection' = g.global
            /\ constructed' = g.constructed
            /\ connected_with' = Some(execute_query(conn.cfg, d).conn_str)
            /\ last' = Call("get_active_sessions", d, conn.id, get_active_sessions(conn.cfg, d))
            /\ UNCHANGED <<env, invocations>>

GetSchedulerStats ==
    \E d \in DriverOutcomes("schedulers") :
        LET g == get_connection(_connection, constructed, env)
            conn == g.global[1]
        IN  /\ _connection' = g.global
            /\ constructed' = g.constructed
            /\ connected_with' = Some(execute_query(conn.cfg, d).conn_str)
            /\ last' = Call("get_scheduler_stats", d, conn.id, get_scheduler_stats(conn.cfg, d))
            /\ UNCHANGED <<env, invocations>>

Next ==
    \/ GetConnection
    \/ GetConnectionString
    \/ TestConnection
    \/ GetServerVersion
    \/ ListDatabases
    \/ GetActiveSessions
    \/ GetSchedulerStats

\* The tools and the descriptor, under the environments that set credentials.
Spec == Init /\ [][Next]_vars

\* The descriptor alone, under every environment.
ConfigInit ==
    /\ env \in Environments
    /\ _connection = None
    /\ constructed = 0
    /\ connected_with = None
    /\ last = NoCall
    /\ invocations = [t \in Threads |-> Idle]

ConfigNext ==
    \/ GetConnection
    \/ GetConnectionString

SpecConfig == ConfigInit /\ [][ConfigNext]_vars

(***************************************************************************)
(* Tool invocations on threads, statement by statement.  Between two       *)
(* statements of one thread any other thread may run: get_connection()     *)
(* takes no lock, and what the threads share is the module global and the  *)
(* database server.                                                        *)
(*                                                                         *)
(* The lifetime of a pyodbc connection: pyodbc.connect opens it; leaving   *)
(* the with block ends the transaction (commit, or rollback on a fault)    *)
(* and leaves it open; it is closed when the Connection object is          *)
(* deallocated, that is when the last reference to it goes.  When          *)
(* execute_query returns, its frame goes and with it the object; when it   *)
(* raises, the traceback of the fault holds the frame until the handler of *)
(* the caller drops the fault at the end of its except block.              *)
(***************************************************************************)
\* the query each tool submits
ToolQuery == [get_server_version |-> "version", list_databases |-> "databases",
              get_active_sessions |-> "sessions", get_scheduler_stats |-> "schedulers"]

\* a variant in which every tool answers only the first query of the process
run_tool_first_query_only(op, c, d) ==
    IF connected_with = None
      THEN CASE op = "get_server_version" -> get_server_version(c, d)
             [] op = "list_databases" -> list_databases(c, d)
             [] op = "get_active_sessions" -> get_active_sessions(c, d)
             [] op = "get_scheduler_stats" -> get_scheduler_stats(c, d)
      ELSE Return([success |-> FALSE, error |-> Some("busy")])

run_tool(op, c, d) ==
    CASE op = "get_server_version" -> get_server_version(c, d)
      [] op = "list_databases" -> list_databases(c, d)
      [] op = "get_active_sessions" -> get_active_sessions(c, d)
      [] op = "get_scheduler_stats" -> get_scheduler_stats(c, d)

\* what pyodbc.connect does: it raises, or it opens a connection
ConnectFaults == {DriverFault("connect", "Connection timeout")}

\* what the body of the with block meets: a fault at execute or at fetchall,
\* or a result set
BodyOutcomes(q) ==
    {DriverFault("execute", "Permission denied"), DriverFault("fetchall", "Connection reset"),
     DriverRows(Columns(q), <<GoodRow(q)>>)}

\* whether the connection is still open once execute_query has been left
\* with outcome d: it is when a fault left the with block
held_after(d) == d.kind = "fault" /\ d.stage # "connect"

\* the tools the threads run: one that returns a record and one that returns
\* a list
ThreadTools == {"get_server_version", "get_active_sessions"}

\* the tool is called on thread t
Begin(t) ==
    /\ invocations[t].pc = "idle"
    /\ \E op \in ThreadTools :
        invocations' = [invocations EXCEPT ![t] = [Idle EXCEPT !.pc = "check", !.op = op]]
    /\ UNCHANGED <<env, _connection, constructed, connected_with, last>>

\* get_connection: if _connection is None
CheckGlobal(t) ==
    /\ invocations[t].pc = "check"
    /\ invocations' = [invocations EXCEPT ![t].pc =
                          IF _connection = None THEN "construct" ELSE "return"]
    /\ UNCHANGED <<env, _connection, constructed, connected_with, last>>

\* get_connection: SQLServerConnection()
Construct(t) ==
    /\ invocations[t].pc = "construct"
    /\ constructed' = constructed + 1
    /\ invocations' = [invocations EXCEPT ![t].pc = "assign",
                                          ![t].instance = constructed + 1]
    /\ UNCHANGED <<env, _connection, connected_with, last>>

\* get_connection: _connection = <the new object>
Assign(t) ==
    /\ invocations[t].pc = "assign"
    /\ _connection' = Some([id |-> invocations[t].instance, cfg |-> SQLServerConnection(env)])
    /\ invocations' = [invocations EXCEPT ![t].pc = "return"]
    /\ UNCHANGED <<env, constructed, connected_with, last>>

\* get_connection: return _connection; the tool then calls execute_query
ReturnGlobal(t) ==
    /\ invocations[t].pc = "return"
    /\ invocations' = [invocations EXCEPT ![t].pc = "connect",
                                          ![t].instance = _connection[1].id,
                                          ![t].queries = @ + 1]
    /\ UNCHANGED <<env, _connection, constructed, connected_with, last>>

\* execute_query: pyodbc.connect(conn_str)
Connect(t) ==
    /\ invocations[t].pc = "connect"
    /\ connected_with' = Some(get_connection_string(SQLServerConnection(env)))
    /\ \/ \E d \in ConnectFaults :
            invocations' = [invocations EXCEPT ![t].pc = "raised", ![t].driver = d,
                                               ![t].connects = @ + 1]
       \/ invocations' = [invocations EXCEPT ![t].pc = "query", ![t].held = TRUE,
                                             ![t].connects = @ + 1]
    /\ UNCHANGED <<env, _connection, constructed, last>>

\* execute_query: the body of the with block, and leaving execute_query
RunQuery(t) ==
    /\ invocations[t].pc = "query"
    /\ \E d \in BodyOutcomes(ToolQuery[invocations[t].op]) :
        invocations' = [invocations EXCEPT
                           ![t].pc = IF d.kind = "fault" THEN "raised" ELSE "returned",
                           ![t].driver = d,
                           ![t].executes = @ + 1,
                           ![t].held = held_after(d)]
    /\ UNCHANGED <<env, _connection, constructed, connected_with, last>>

\* a variant in which the tool returns with its connection still open
Complete_keeping_connection(t) ==
    /\ invocations[t].pc \in {"returned", "raised"}
    /\ invocations' = [invocations EXCEPT
                          ![t].pc = "done",
                          ![t].result = Some(run_tool(invocations[t].op, SQLServerConnection(env),
                                                      invocations[t].driver))]
    /\ UNCHANGED <<env, _connection, constructed, connected_with, last>>

\* the tool: the rest of its try block or its except block, and its return
Complete(t) ==
    /\ invocations[t].pc \in {"returned", "raised"}
    /\ invocations' = [invocations EXCEPT
                          ![t].pc = "done",
                          ![t].held = FALSE,
                          ![t].result = Some(run_tool(invocations[t].op, SQLServerConnection(env),
                                                      invocations[t].driver))]
    /\ UNCHANGED <<env, _connection, constructed, connected_with, last>>

ThreadInit ==
    /\ env = EmptyEnvironment
    /\ _connection = None
    /\ constructed = 0
    /\ connected_with = None
    /\ last = NoCall
    /\ invocations = [t \in Threads |-> Idle]

ThreadNext ==
    \/ \E t \in Threads : Begin(t)
    \/ \E t \in Threads : CheckGlobal(t)
    \/ \E t \in Threads : Construct(t)
    \/ \E t \in Threads : Assign(t)
    \/ \E t \in Threads : ReturnGlobal(t)
    \/ \E t \in Threads : Connect(t)
    \/ \E t \in Threads : RunQuery(t)
    \/ \E t \in Threads : Complete(t)

\* One tool invocation per thread, interleaved statement by statement.
SpecThreads == ThreadInit /\ [][ThreadNext]_vars

(***************************************************************************)
(* Tool invocations one after the other: the host runs each invocation to  *)
(* its end before it starts the next one, and invocations keeps what each  *)
(* of them was given and returned.                                         *)
(***************************************************************************)
SerialOutcomes(q) ==
    ConnectFaults \cup BodyOutcomes(q) \cup {DriverRows(Columns(q), << >>)}

Invoke(t) ==
    /\ invocations[t].pc = "idle"
    /\ \E op \in DOMAIN ToolQuery : \E d \in SerialOutcomes(ToolQuery[op]) :
        LET g == get_connection(_connection, constructed, env)
            conn == g.global[1]
        IN  /\ _connection' = g.global
            /\ constructed' = g.constructed
            /\ connected_with' = Some(execute_query(conn.cfg, d).conn_str)
            /\ invocations' = [invocations EXCEPT ![t] =
                    [pc |-> "done", op |-> op, instance |-> conn.id, driver |-> d,
                     held |-> FALSE, connects |-> 1,
                     executes |-> IF d.stage = "connect" THEN 0 ELSE 1,
                     queries |-> 1, result |-> Some(run_tool(op, conn.cfg, d))]]
    /\ UNCHANGED <<env, last>>

SerialNext == \E t \in Threads : Invoke(t)

\* One tool invocation per thread, the invocations serialized.
SpecSerial == ThreadInit /\ [][SerialNext]_vars

(***************************************************************************)
(* execute_query called on the descriptor, with each of the four queries.  *)
(***************************************************************************)
ExecuteQuery ==
    /\ _connection # None
    /\ \E q \in {ToolQuery[op] : op \in DOMAIN ToolQuery} : \E d \in DriverOutcomes(q) :
        LET r == execute_query(_connection[1].cfg, d)
        IN  /\ connected_with' = Some(r.conn_str)
            /\ last' = Call("execute_query", d, _connection[1].id,
                            IF r.raised = None
                              THEN Return(r.rows)
                              ELSE Raise([class |-> r.class, msg |-> r.raised[1]]))
    /\ UNCHANGED <<env, _connection, constructed, invocations>>

QueryNext ==
    \/ GetConnection
    \/ ExecuteQuery

\* The query executor alone.
SpecQuery == Init /\ [][QueryNext]_vars

(***************************************************************************)
(* Vocabulary of the properties.                                           *)
(***************************************************************************)
ToolOps == {"get_server_version", "list_databases", "get_active_sessions",
            "get_scheduler_stats"}

ListOps == {"list_databases", "get_active_sessions"}

\* the last call was a tool, and it returned an envelope
ToolReturned == last.op \in ToolOps /\ last.returned # None

\* the envelope (or other value) the last call returned
Returned == last.returned[1]

\* the fields of the descriptor the last call used
Cfg == _connection[1].cfg

\* the fault, if any, raised inside the try block of the last tool call
RaisedInside ==
    CASE last.op = "get_server_version" -> get_server_version_try(Cfg, last.driver).raised
      [] last.op = "list_databases" -> list_databases_try(Cfg, last.driver).raised
      [] last.op = "get_active_sessions" -> get_active_sessions_try(Cfg, last.driver).raised
      [] last.op = "get_scheduler_stats" -> get_scheduler_stats_try(Cfg, last.driver).raised

\* the list an envelope of a list tool or of the scheduler tool carries
ListOf(envelope) ==
    CASE last.op = "list_databases" -> envelope.databases
      [] last.op = "get_active_sessions" -> envelope.sessions
      [] last.op = "get_scheduler_stats" -> envelope.schedulers

(***************************************************************************)
(* C1.  In every envelope a tool returns, success is false exactly when    *)
(* error is a non-empty string, and success is true exactly when error is  *)
(* absent.  The code copies str(e) into error, so a fault whose message is *)
(* the empty string gives success = false with error = "": violated.       *)
(***************************************************************************)
C1_SuccessIffError ==
    ToolReturned =>
        /\ (Returned.success = FALSE) <=> (Returned.error # None /\ Returned.error[1] # "")
        /\ (Returned.success = TRUE) <=> (Returned.error = None)

(***************************************************************************)
(* C2.  No fault escapes a tool: the call returns an envelope and raises   *)
(* nothing; when the driver raised, or the conversion of a row raised, the *)
(* envelope has success = false and error is the message of that fault.    *)
(***************************************************************************)
C2_NoFaultEscapes ==
    last.op \in ToolOps =>
        /\ last.escaped = None
        /\ last.returned # None
        /\ last.driver.kind = "fault" =>
              /\ Returned.success = FALSE
              /\ Returned.error = Some(last.driver.msg)
        /\ RaisedInside # None =>
              /\ Returned.success = FALSE
              /\ Returned.error = RaisedInside

\* a row failed to convert inside get_active_sessions, and an envelope came back
C2_Witness ==
    /\ last.op = "get_active_sessions"
    /\ last.driver.kind = "rows"
    /\ RaisedInside # None
    /\ last.returned # None
    /\ Returned.success = FALSE

(***************************************************************************)
(* C3.  A failed envelope carries the empty default payload and nothing of *)
(* the rows fetched before the fault.                                      *)
(***************************************************************************)
C3_FailurePayloadEmpty ==
    (ToolReturned /\ Returned.success = FALSE) =>
        CASE last.op = "get_server_version" ->
                Returned.version = "" /\ Returned.server_name = ""
          [] last.op = "list_databases" ->
                Returned.databases = << >> /\ Returned.count = 0
          [] last.op = "get_active_sessions" ->
                Returned.sessions = << >> /\ Returned.count = 0
          [] last.op = "get_scheduler_stats" ->
                /\ Returned.schedulers = << >>
                /\ Returned.scheduler_count = 0
                /\ Returned.total_runnable_tasks = 0
                /\ Returned.avg_runnable_per_scheduler = Zero
                /\ Returned.cpu_pressure_detected = FALSE
                /\ Returned.interpretation = << >>

\* list_databases failed on its second row, after a first row that converts
C3_Witness ==
    /\ last.op = "list_databases"
    /\ last.driver.kind = "rows"
    /\ Len(last.driver.rows) = 2
    /\ last.driver.rows[1] = DatabaseRowA
    /\ ToolReturned
    /\ Returned.success = FALSE

(***************************************************************************)
(* C4 as stated.  get_server_version on zero rows returns success = false  *)
(* with error "No results returned from query" and empty version and       *)
(* server_name; on at least one row it returns success = true with version *)
(* and server_name taken from the first row.  Violated: a first row whose  *)
(* ServerName is NULL, or that lacks a column, makes the envelope fail.    *)
(***************************************************************************)
C4_AnyRowSucceeds ==
    (last.op = "get_server_version" /\ last.driver.kind = "rows") =>
        /\ last.returned # None
        /\ IF last.driver.rows = << >>
             THEN /\ Returned.success = FALSE
                  /\ Returned.error = Some("No results returned from query")
                  /\ Returned.version = ""
                  /\ Returned.server_name = ""
             ELSE /\ Returned.success = TRUE
                  /\ Returned.version = last.driver.rows[1][1].s
                  /\ Returned.server_name = last.driver.rows[1][2].s

\* the first row the executor returned holds a str under Version and ServerName
FirstRowIsVersionRow ==
    LET results == execute_query(Cfg, last.driver).rows
    IN  /\ results # << >>
        /\ {"Version", "ServerName"} \subseteq DOMAIN results[1]
        /\ results[1]["Version"].t = "str"
        /\ results[1]["ServerName"].t = "str"

(***************************************************************************)
(* C4 as amended.  get_server_version on zero rows returns success = false *)
(* with error "No results returned from query" and empty version and       *)
(* server_name; on at least one row whose first row holds a string under   *)
(* both Version and ServerName it returns success = true with version and  *)
(* server_name taken from that first row.                                  *)
(***************************************************************************)
C4_VersionRowPolicy ==
    (last.op = "get_server_version" /\ last.driver.kind = "rows") =>
        /\ last.returned # None
        /\ last.driver.rows = << >> =>
              /\ Returned.success = FALSE
              /\ Returned.error = Some("No results returned from query")
              /\ Returned.version = ""
              /\ Returned.server_name = ""
        /\ FirstRowIsVersionRow =>
              /\ Returned.success = TRUE
              /\ Returned.error = None
              /\ Returned.version = execute_query(Cfg, last.driver).rows[1]["Version"].s
              /\ Returned.server_name =
                    execute_query(Cfg, last.driver).rows[1]["ServerName"].s

\* two different version rows came back and the call succeeded
C4_Witness ==
    /\ last.op = "get_server_version"
    /\ last.driver.kind = "rows"
    /\ Len(last.driver.rows) = 2
    /\ last.driver.rows[1] # last.driver.rows[2]
    /\ FirstRowIsVersionRow
    /\ last.returned # None
    /\ Returned.success = TRUE

(***************************************************************************)
(* C5.  list_databases and get_active_sessions on zero rows return         *)
(* success = true with an empty list, count = 0 and no error.              *)
(***************************************************************************)
C5_EmptyListIsSuccess ==
    (last.op \in ListOps /\ last.driver.kind = "rows" /\ last.driver.rows = << >>) =>
        /\ last.returned # None
        /\ Returned.success = TRUE
        /\ ListOf(Returned) = << >>
        /\ Returned.count = 0
        /\ Returned.error = None

\* get_active_sessions was answered with an empty result set
C5_Witness ==
    /\ last.op = "get_active_sessions"
    /\ last.driver.kind = "rows"
    /\ last.driver.rows = << >>
    /\ last.returned # None

\* the driver delivered scheduler rows that all convert: every column of the
\* query is described and every value is an int
ValidSchedulerRows ==
    /\ last.driver.kind = "rows"
    /\ last.driver.columns = SchedulerColumns
    /\ \A k \in 1..Len(last.driver.rows) :
          /\ Len(last.driver.rows[k]) = Len(SchedulerColumns)
          /\ \A j \in 1..Len(SchedulerColumns) : last.driver.rows[k][j].t = "int"

\* the sum of the third column (runnable_tasks_count) of the driver's rows
RECURSIVE SumRunnable(_)
SumRunnable(rows) ==
    IF rows = << >> THEN 0 ELSE Head(rows)[3].i + SumRunnable(Tail(rows))

(***************************************************************************)
(* C6.  get_scheduler_stats on any sequence of valid scheduler rows, the   *)
(* empty one included, returns success = true with total_runnable_tasks    *)
(* the sum of runnable_tasks_count over the rows, scheduler_count the      *)
(* number of rows, and avg_runnable_per_scheduler their quotient, or 0.0   *)
(* when there is no row.                                                   *)
(***************************************************************************)
C6_SchedulerAggregates ==
    (last.op = "get_scheduler_stats" /\ ValidSchedulerRows) =>
        /\ last.returned # None
        /\ Returned.success = TRUE
        /\ Returned.error = None
        /\ Returned.total_runnable_tasks = SumRunnable(last.driver.rows)
        /\ Returned.scheduler_count = Len(last.driver.rows)
        /\ Len(Returned.schedulers) = Len(last.driver.rows)
        /\ IF Len(last.driver.rows) > 0
             THEN Returned.avg_runnable_per_scheduler.num * Len(last.driver.rows)
                    = SumRunnable(last.driver.rows)
                        * Returned.avg_runnable_per_scheduler.den
             ELSE Returned.avg_runnable_per_scheduler = Zero

\* two valid scheduler rows whose runnable counts sum to a nonzero total
C6_Witness ==
    /\ last.op = "get_scheduler_stats"
    /\ ValidSchedulerRows
    /\ Len(last.driver.rows) = 2
    /\ SumRunnable(last.driver.rows) # 0
    /\ last.returned # None
    /\ Returned.success = TRUE

(***************************************************************************)
(* C7.  In a successful get_scheduler_stats envelope cpu_pressure_detected *)
(* is true exactly when total_runnable_tasks > 0; the interpretation is    *)
(* the "CPU PRESSURE DETECTED" text naming total_runnable_tasks when the   *)
(* flag is true and the "No CPU pressure detected" text when it is false;  *)
(* a nonzero number of rows all with runnable_tasks_count = 0 gives false. *)
(***************************************************************************)
C7_PressureTrigger ==
    (last.op = "get_scheduler_stats" /\ ToolReturned /\ Returned.success = TRUE) =>
        /\ Returned.cpu_pressure_detected <=> (Returned.total_runnable_tasks > 0)
        /\ Returned.cpu_pressure_detected =>
              /\ Len(Returned.interpretation) >= 3
              /\ SubSeq(Returned.interpretation, 1, 3)
                    = <<"CPU PRESSURE DETECTED: ",
                        ToString(Returned.total_runnable_tasks),
                        " task(s) waiting for CPU. ">>
        /\ ~Returned.cpu_pressure_detected =>
              /\ Len(Returned.interpretation) >= 1
              /\ Returned.interpretation[1]
                    = "No CPU pressure detected. All schedulers have 0 runnable tasks, "
              /\ ~Contains(Returned.interpretation, <<"CPU PRESSURE DETECTED: ">>)
        /\ (/\ Len(Returned.schedulers) > 0
            /\ \A k \in 1..Len(Returned.schedulers) :
                  Returned.schedulers[k].runnable_tasks_count = 0)
              => ~Returned.cpu_pressure_detected

\* pressure is reported although the average is below one task per scheduler
C7_Witness ==
    /\ last.op = "get_scheduler_stats"
    /\ ToolReturned
    /\ Returned.success = TRUE
    /\ Returned.cpu_pressure_detected
    /\ Returned.total_runnable_tasks < Returned.scheduler_count

(***************************************************************************)
(* C8.  get_connection_string renders exactly one credential mode and      *)
(* never raises: with user and password both non-empty the string contains *)
(* UID=<user> and PWD=<password> and no Trusted_Connection marker; in      *)
(* every other case it contains Trusted_Connection=yes and neither a UID   *)
(* nor a PWD field.                                                        *)
(***************************************************************************)
C8_OneCredentialMode ==
    last.op = "get_connection_string" =>
        /\ last.escaped = None
        /\ last.returned # None
        /\ IF Cfg.user # "" /\ Cfg.password # ""
             THEN /\ Contains(Returned, <<"UID=", Cfg.user>>)
                  /\ Contains(Returned, <<"PWD=", Cfg.password>>)
                  /\ ~Contains(Returned, <<"Trusted_Connection=yes">>)
             ELSE /\ Contains(Returned, <<"Trusted_Connection=yes">>)
                  /\ ~Contains(Returned, <<"UID=">>)
                  /\ ~Contains(Returned, <<"PWD=">>)

\* the string was built for a descriptor with a user and no password
C8_Witness ==
    /\ last.op = "get_connection_string"
    /\ last.returned # None
    /\ Cfg.user # ""
    /\ Cfg.password = ""

\* the field of the descriptor that a configuration variable feeds
FieldOf(name) ==
    CASE name = "SQL_SERVER_HOST" -> "host"
      [] name = "SQL_SERVER_PORT" -> "port"
      [] name = "SQL_SERVER_DATABASE" -> "database"
      [] name = "SQL_SERVER_USER" -> "user"
      [] name = "SQL_SERVER_PASSWORD" -> "password"
      [] name = "SQL_SERVER_DRIVER" -> "driver"
      [] name = "SQL_SERVER_TRUST_CERT" -> "trust_cert"
      [] name = "SQL_SERVER_ENCRYPT" -> "encrypt"

(***************************************************************************)
(* C9.  A descriptor constructed with no configuration variable set has    *)
(* host "localhost", port "1433", database "master" and driver             *)
(* "ODBC Driver 18 for SQL Server"; every variable that is set overrides   *)
(* only its own field.  Violated: the code's default driver is             *)
(* "ODBC Driver 17 for SQL Server".                                        *)
(***************************************************************************)
C9_Defaults ==
    _connection # None =>
        /\ env = EmptyEnvironment =>
              /\ Cfg.host = "localhost"
              /\ Cfg.port = "1433"
              /\ Cfg.database = "master"
              /\ Cfg.driver = "ODBC Driver 18 for SQL Server"
        /\ \A n \in EnvVars :
              IF env[n] # None
                THEN Cfg[FieldOf(n)] = env[n][1]
                ELSE Cfg[FieldOf(n)] = SQLServerConnection(EmptyEnvironment)[FieldOf(n)]

(***************************************************************************)
(* C10.  Build once, read many: once the global descriptor is set, no call *)
(* replaces it or changes a field of it, every call gets that same         *)
(* instance, and every query connects with the same connection string.     *)
(***************************************************************************)
C10_BuildOnce ==
    [][_connection # None =>
          /\ _connection' = _connection
          /\ constructed' = constructed
          /\ last'.instance = _connection[1].id
          /\ connected_with # None => connected_with' = connected_with
          /\ connected_with' # None =>
                connected_with' = Some(get_connection_string(_connection[1].cfg))]_vars

\* a query of a tool has connected through a global that an earlier call built
C10_Witness ==
    /\ _connection # None
    /\ last.op = "test_connection"
    /\ last.instance = _connection[1].id
    /\ connected_with = Some(get_connection_string(Cfg))
    /\ constructed = 1

(***************************************************************************)
(* Vocabulary of the properties about threads.                             *)
(***************************************************************************)
\* get_connection() has returned to the tool on thread t
Received(t) == invocations[t].pc \in {"connect", "query", "returned", "raised", "done"}

\* thread t is inside execute_query
InExecuteQuery(t) == invocations[t].pc \in {"connect", "query"}

\* thread t is inside a tool invocation
InProgress(t) == invocations[t].pc \notin {"idle", "done"}

\* the number of pyodbc connections that are open
OpenConnections == Cardinality({t \in Threads : invocations[t].held})

(***************************************************************************)
(* C11.  Under every interleaving of tool invocations that call            *)
(* get_connection() while the global is unset, SQLServerConnection is      *)
(* constructed at most once (and so the global is written at most once,    *)
(* every write following a construction by the same thread) and all        *)
(* callers receive the same instance.  Violated: get_connection() tests    *)
(* the global and assigns it in separate statements without a lock, so two *)
(* threads that both see None both construct, both assign, and may return  *)
(* different objects.                                                      *)
(***************************************************************************)
C11_RaceFreeInit ==
    /\ constructed <= 1
    /\ \A t \in Threads : \A u \in Threads :
        (Received(t) /\ Received(u)) => invocations[t].instance = invocations[u].instance

(***************************************************************************)
(* C12.  Whenever a thread is not inside execute_query, the connection its *)
(* invocation opened has been released: with no execute_query in progress  *)
(* the number of connections held is zero.  Violated: the with block of    *)
(* execute_query ends the transaction and does not close the connection;   *)
(* after a fault at execute or at fetchall the connection is still open    *)
(* when execute_query has raised, and stays open while the except block of *)
(* the tool runs.                                                          *)
(***************************************************************************)
C12_ReleasedOnExit ==
    \A t \in Threads : ~InExecuteQuery(t) => ~invocations[t].held

(***************************************************************************)
(* C13.  When the driver delivers a result set, execute_query returns one  *)
(* mapping per fetched row, in fetch order, and the mapping of a row maps  *)
(* the j-th column name of the cursor description to the j-th value of     *)
(* that row and has no other key; zero rows give the empty list and no     *)
(* fault.                                                                  *)
(***************************************************************************)
C13_RowsInFetchOrder ==
    (last.op = "execute_query" /\ last.driver.kind = "rows") =>
        LET columns == last.driver.columns
            fetched == last.driver.rows
        IN  /\ last.escaped = None
            /\ last.returned # None
            /\ Len(last.returned[1]) = Len(fetched)
            /\ \A k \in 1..Len(fetched) :
                /\ DOMAIN last.returned[1][k] = {columns[j] : j \in 1..Len(columns)}
                /\ \A j \in 1..Len(columns) :
                    last.returned[1][k][columns[j]] = fetched[k][j]

\* execute_query has returned two mappings that differ, the second one for the
\* second fetched row
C13_Witness ==
    /\ last.op = "execute_query"
    /\ last.returned # None
    /\ last.driver.columns = SchedulerColumns
    /\ Len(last.driver.rows) = 2
    /\ Len(last.returned[1]) = 2
    /\ last.returned[1][1] # last.returned[1][2]
    /\ last.returned[1][2]["scheduler_id"] = last.driver.rows[2][1]

(***************************************************************************)
(* C14 as stated.  On a fault at connect, execute or fetchall,             *)
(* execute_query returns nothing and fails with a QueryError that carries  *)
(* the message of the driver fault.  Violated: there is no wrapping, the   *)
(* fault that leaves execute_query is the driver's own.                    *)
(***************************************************************************)
C14_FailsWithQueryError ==
    (last.op = "execute_query" /\ last.driver.kind = "fault") =>
        /\ last.returned = None
        /\ last.escaped = Some([class |-> "QueryError", msg |-> last.driver.msg])

(***************************************************************************)
(* C14 amended.  On a fault at connect, execute or fetchall, execute_query *)
(* returns nothing and fails with the driver fault itself, re-raised       *)
(* unchanged: the same class (pyodbc.Error) and the same message.          *)
(***************************************************************************)
C14_ReraisesDriverFault ==
    (last.op = "execute_query" /\ last.driver.kind = "fault") =>
        /\ last.returned = None
        /\ last.escaped = Some([class |-> "pyodbc.Error", msg |-> last.driver.msg])

\* execute_query has failed on a fault raised by cursor.execute
C14_Witness ==
    /\ last.op = "execute_query"
    /\ last.driver.kind = "fault"
    /\ last.driver.stage = "execute"
    /\ last.escaped # None
    /\ last.escaped[1].msg = "Permission denied"

(***************************************************************************)
(* C15.  test_connection never lets a fault escape: whatever execute_query *)
(* does, it returns a mapping.  When execute_query returns at least one    *)
(* row the mapping has success = true, the message "Connection successful" *)
(* and the first row as server_info; when it returns no row or raises, the *)
(* mapping has success = false, a message that begins with                 *)
(* "Connection failed" and no server_info.                                 *)
(***************************************************************************)
C15_TestConnectionTotal ==
    last.op = "test_connection" =>
        /\ last.escaped = None
        /\ last.returned # None
        /\ IF last.driver.kind = "rows" /\ Len(last.driver.rows) >= 1
             THEN /\ Returned.success = TRUE
                  /\ Returned.message = <<"Connection successful">>
                  /\ Returned.server_info =
                        Some(zip_dict(last.driver.columns, last.driver.rows[1]))
             ELSE /\ Returned.success = FALSE
                  /\ Len(Returned.message) >= 1
                  /\ Returned.message[1] = "Connection failed: "
                  /\ Returned.server_info = None

\* test_connection has succeeded on two rows that differ
C15_Witness ==
    /\ last.op = "test_connection"
    /\ last.returned # None
    /\ Len(last.driver.rows) = 2
    /\ last.driver.rows[1] # last.driver.rows[2]
    /\ Returned.success = TRUE
    /\ Returned.server_info = Some(zip_dict(last.driver.columns, last.driver.rows[1]))

C17_OneConnectionPerInvocation ==
    /\ \A t \in Threads :
        LET i == invocations[t]
        IN  /\ i.queries <= 1 /\ i.connects <= 1 /\ i.executes <= 1
            /\ i.connects <= i.queries
            /\ i.held => InProgress(t)
            /\ i.pc = "done" =>
                /\ i.queries = 1
                /\ i.connects = 1
                /\ i.executes = (IF i.driver.stage = "connect" THEN 0 ELSE 1)
                /\ ~i.held
                /\ i.result = Some(run_tool(i.op, SQLServerConnection(env), i.driver))
    /\ OpenConnections <= Cardinality({t \in Threads : InProgress(t)})

\* two invocations have run, one met a fault at execute while the other held
\* its own connection, and the other has returned its row
C17_Witness ==
    \E t \in Threads : \E u \in Threads :
        /\ invocations[t].pc = "raised"
        /\ invocations[t].driver.stage = "execute"
        /\ invocations[t].held
        /\ invocations[u].pc = "done"
        /\ invocations[u].driver.kind = "rows"
        /\ invocations[u].result[1].value.success = TRUE
        /\ invocations[u].connects = 1
        /\ constructed = 2

(***************************************************************************)
(* Vocabulary of the properties about record lists.                        *)
(***************************************************************************)
\* the tools that convert every row into a record
RowOps == {"list_databases", "get_active_sessions", "get_scheduler_stats"}

\* the fields of the record model the last tool converts its rows into
ModelOfLast ==
    CASE last.op = "list_databases" -> DatabaseInfo
      [] last.op = "get_active_sessions" -> ActiveSessionInfo
      [] last.op = "get_scheduler_stats" -> SchedulerStats

\* the rows the executor handed to the last tool
ExecutorRows == execute_query(Cfg, last.driver).rows

\* row converts into a record of the last tool's model
Converts(row) == \A k \in 1..Len(ModelOfLast) : ~field_fails(ModelOfLast[k], row)

(***************************************************************************)
(* C18.  In list_databases, get_active_sessions and get_scheduler_stats,   *)
(* when the executor returns rows and any one of them does not convert (a  *)
(* required field missing or null, a value of the wrong type) the envelope *)
(* has success = false and an empty list, never the rows that did convert; *)
(* when every row converts the list has one record per row, in the         *)
(* executor's order, each field holding the row's value, and an optional   *)
(* field that is null in the row is None in the record.                    *)
(***************************************************************************)
C18_AllOrNothing ==
    (last.op \in RowOps /\ last.returned # None /\ last.driver.kind = "rows") =>
        IF \E k \in 1..Len(ExecutorRows) : ~Converts(ExecutorRows[k])
          THEN /\ Returned.success = FALSE
               /\ ListOf(Returned) = << >>
          ELSE /\ Returned.success = TRUE
               /\ Len(ListOf(Returned)) = Len(ExecutorRows)
               /\ \A k \in 1..Len(ExecutorRows) : \A j \in 1..Len(ModelOfLast) :
                    LET f == ModelOfLast[j]
                        row == ExecutorRows[k]
                    IN  /\ ListOf(Returned)[k][f.name] = field_value(f, row)
                        /\ (f.opt /\ f.name \in DOMAIN row /\ row[f.name].t = "null")
                              => ListOf(Returned)[k][f.name] = None

\* get_active_sessions was given a row that converts followed by one that does
\* not, and has returned a failure with no session
C18_Witness ==
    /\ last.op = "get_active_sessions"
    /\ last.returned # None
    /\ last.driver.kind = "rows"
    /\ Len(ExecutorRows) = 2
    /\ Converts(ExecutorRows[1])
    /\ ~Converts(ExecutorRows[2])
    /\ Returned.success = FALSE
    /\ Returned.sessions = << >>

\* the count an envelope of a list tool or of the scheduler tool reports
CountOf(envelope) ==
    IF last.op = "get_scheduler_stats" THEN envelope.scheduler_count ELSE envelope.count

(***************************************************************************)
(* C19.  In every envelope list_databases, get_active_sessions and         *)
(* get_scheduler_stats return, failed or not, the reported count (count,   *)
(* or scheduler_count) is the length of the returned list; in a successful *)
(* one it is also the number of rows the executor returned.                *)
(***************************************************************************)
C19_CountIsLength ==
    (last.op \in RowOps /\ last.returned # None) =>
        /\ CountOf(Returned) = Len(ListOf(Returned))
        /\ Returned.success = TRUE =>
              /\ last.driver.kind = "rows"
              /\ CountOf(Returned) = Len(last.driver.rows)

\* list_databases has returned two databases
C19_Witness ==
    /\ last.op = "list_databases"
    /\ last.returned # None
    /\ Returned.success = TRUE
    /\ Len(last.driver.rows) = 2
    /\ Len(Returned.databases) = 2
    /\ Returned.count = 2

(***************************************************************************)
(* C20.  Whenever get_scheduler_stats returns success = true with          *)
(* cpu_pressure_detected = false, every scheduler of the returned list has *)
(* runnable_tasks_count = 0, as the interpretation text says.  Violated:   *)
(* pressure is decided on the sum of the counts, any int is accepted as a  *)
(* count, and counts of -1 and 1 sum to 0.                                 *)
(***************************************************************************)
C20_NoPressureMeansAllZero ==
    (/\ last.op = "get_scheduler_stats"
     /\ last.returned # None
     /\ Returned.success = TRUE
     /\ Returned.cpu_pressure_detected = FALSE)
        => \A k \in 1..Len(Returned.schedulers) :
              Returned.schedulers[k].runnable_tasks_count = 0

=============================================================================
